---- MODULE Spec2Model ----
(***************************************************************************)
(* Counter consolidation of the CPU collector (cpu_linux.go), overlapping  *)
(* scrapes of that collector, and the failure isolation of one scrape over *)
(* several collectors.                                                     *)
(*                                                                         *)
(* Counters are float64 seconds in the source; the model counts whole      *)
(* seconds, which float64 represents exactly, so  >=  and  -  below are    *)
(* the source's comparisons on these values.  The model tracks the five    *)
(* fields whose consolidation is in the source text of updateCPUStats:     *)
(* Idle, User, Nice, System, Iowait.                                       *)
(***************************************************************************)
EXTENDS Integers, Sequences, FiniteSets, TLC

\* Idle jump back limit in seconds.
jumpBackSeconds == 3

\* Bounds of the raw readings the kernel-data collaborator returns.
MaxCPUs == 2
MaxIdle == 4
MaxBusy == 3
\* Bound of the number of fresh readings in a run of sequential scrapes.
MaxCalls == 2

Fields == {"Idle", "User", "Nice", "System", "Iowait"}
NonIdleFields == Fields \ {"Idle"}

\* procfs.CPUStat{} : the zero value of one cache slot.
ZeroStat == [Idle |-> 0, User |-> 0, Nice |-> 0, System |-> 0, Iowait |-> 0]

\* One CPU's raw counters as read from the kernel (non-negative), on a host
\* whose CPUs spend their non-idle time in mode b.
RawCPUStat(b) ==
  {[[ZeroStat EXCEPT !.Idle = idle] EXCEPT ![b] = v] : idle \in 0..MaxIdle, v \in 0..MaxBusy}

\* stats.CPU : one raw reading, a slice indexed by CPU ordinal.
RawReadings(b) == UNION {[1..n -> RawCPUStat(b)] : n \in 0..MaxCPUs}

\* The goroutine of a sequential scrape.
Main == 1

\* Bounds of overlapping scrapes: the goroutines that run Update on the one
\* collector, and the number of Update calls they start in all.
NumGoroutines == 2
MaxScrapes == 3

Goroutines == 1..NumGoroutines

\* Bounds of one scrape: the enabled collectors, in registration order, and
\* the samples the data source of each holds.
NumCollectors == 3
NumSamples == 2

Collectors == 1..NumCollectors

VARIABLES
  cpuStats,       \* c.cpuStats, the cache
  cpuStatsMutex,  \* c.cpuStatsMutex: 0 when unlocked, else the goroutine holding it
  pc,             \* where each goroutine is in Update
  idx,            \* the loop index of each goroutine (1-based)
  newStats,       \* newStats of each goroutine's updateCPUStats call
  ch,             \* the samples each goroutine's Update has sent on ch
  busy,           \* the non-idle mode of the host's workload
  oldStats,       \* history: the cache when the latest updateCPUStats began
  resized,        \* history: the latest updateCPUStats reallocated the cache
  resetCPUs,      \* history: the CPUs the latest updateCPUStats logged as jumped back
  calls,          \* history: the number of fresh readings taken from the kernel
  monotone,       \* history: no reading so far changed the CPU count or lowered a field
  repeated,       \* history: the latest scrape read the same counters as the one before it
  commits,        \* history: the updateCPUStats calls that returned, in order
  own,            \* history: per goroutine, the index in commits of its own call
  seen,           \* history: per goroutine, Len(commits) when its emission pass began
  concurrent,     \* the execution mode of the scrape over all collectors
  cpc,            \* where each collector of the scrape is
  cerr,           \* whether each collector's data source returned an error
  sent,           \* the number of samples each collector has sent
  sink,           \* the samples and meta-samples of the scrape
  returned        \* the scrape has completed

\* The state of one scrape over all enabled collectors.
scrapeVars == <<concurrent, cpc, cerr, sent, sink, returned>>

\* The state of the CPU collector.
cpuVars == <<cpuStats, cpuStatsMutex, pc, idx, newStats, ch, busy, oldStats, resized,
             resetCPUs, calls, monotone, repeated, commits, own, seen>>

vars == <<cpuVars, scrapeVars>>

\* The history of sequential scrapes.
seqHist == <<oldStats, resized, resetCPUs, monotone, repeated>>

----------------------------------------------------------------------------
\* updateCPUStats

\* make([]procfs.CPUStat, n)
MakeStats(n) == [k \in 1..n |-> ZeroStat]

\* Mutant of CPUsChanged: the cache is reallocated only when CPUs were added.
CPUsChangedGrowOnly(cache, raw) == Len(cache) < Len(raw)

\* len(c.cpuStats) != len(newStats)
CPUsChanged(cache, raw) == Len(cache) # Len(raw)

\* Mutant of JumpedBack: the limit itself is not a jump.
JumpedBackStrict(c, n) == (c.Idle - n.Idle) > jumpBackSeconds

\* Mutant of JumpedBack: any counter going back by the limit counts as a hotplug.
JumpedBackAnyField(c, n) == \E f \in Fields : (c[f] - n[f]) >= jumpBackSeconds

\* (c.cpuStats[i].Idle - n.Idle) >= jumpBackSeconds
JumpedBack(c, n) == (c.Idle - n.Idle) >= jumpBackSeconds

\* Mutant of Ratchet: the raw value is always stored.
RatchetRaw(cached, new) == new

\* Mutant of Ratchet: the comparison is inverted.
RatchetInverted(cached, new) == IF new <= cached THEN new ELSE cached

\* if n.F >= c.cpuStats[i].F { c.cpuStats[i].F = n.F } else { log }
Ratchet(cached, new) == IF new >= cached THEN new ELSE cached

\* Mutant of ConsolidateCPU: a regression of one field keeps the whole slot.
ConsolidateCPUAllOrNothing(c, n) ==
  LET base == IF JumpedBack(c, n) THEN ZeroStat ELSE c
  IN  IF \E f \in Fields : n[f] < base[f] THEN base
      ELSE [f \in Fields |-> n[f]]

\* Mutant of ConsolidateCPU: a reset slot stays zero for this scrape.
ConsolidateCPUSkip(c, n) ==
  IF JumpedBack(c, n) THEN ZeroStat
  ELSE [f \in Fields |-> Ratchet(c[f], n[f])]

\* The body of the loop over newStats, for one CPU.
ConsolidateCPU(c, n) ==
  LET base == IF JumpedBack(c, n) THEN ZeroStat ELSE c
  IN  [Idle   |-> Ratchet(base.Idle, n.Idle),
       User   |-> Ratchet(base.User, n.User),
       Nice   |-> Ratchet(base.Nice, n.Nice),
       System |-> Ratchet(base.System, n.System),
       Iowait |-> Ratchet(base.Iowait, n.Iowait)]

\* Reset the cache if the list of CPUs has changed.
Baseline(cache, raw) ==
  IF CPUsChanged(cache, raw) THEN MakeStats(Len(raw)) ELSE cache

\* updateCPUStats as a whole: the loop writes the slots of the CPUs in raw.
updateCPUStats(cache, raw) ==
  LET base == Baseline(cache, raw)
  IN  [k \in 1..Len(base) |->
         IF k <= Len(raw) THEN ConsolidateCPU(base[k], raw[k]) ELSE base[k]]

\* The CPUs for which the loop logs jumpBackDebugMessage.
JumpBackLog(cache, raw) ==
  LET base == Baseline(cache, raw)
  IN  {k \in 1..Len(raw) : k <= Len(base) /\ JumpedBack(base[k], raw[k])}

----------------------------------------------------------------------------
\* Update: emission of the cache

\* The samples sent for one cache slot, in the order of the source.
EmitCPU(cpuID, st) ==
  << <<cpuID, "user", st.User>>, <<cpuID, "nice", st.Nice>>,
     <<cpuID, "system", st.System>>, <<cpuID, "idle", st.Idle>>,
     <<cpuID, "iowait", st.Iowait>> >>

\* for cpuID, cpuStat := range c.cpuStats { ... }
RECURSIVE EmitFrom(_, _)
EmitFrom(stats, k) ==
  IF k > Len(stats) THEN <<>>
  ELSE EmitCPU(k - 1, stats[k]) \o EmitFrom(stats, k + 1)

----------------------------------------------------------------------------
\* Sequential scrapes of the CPU collector

\* No field of any CPU is lower in raw than in prev, and the CPU count is the same.
NonDecreasing(prev, raw) ==
  /\ Len(prev) = Len(raw)
  /\ \A k \in 1..Len(raw) : \A f \in Fields : raw[k][f] >= prev[k][f]

\* No scrape over the collectors is in progress.
NoScrape(mode) ==
  /\ concurrent = mode
  /\ cpc = [c \in Collectors |-> "pending"]
  /\ cerr = [c \in Collectors |-> FALSE]
  /\ sent = [c \in Collectors |-> 0]
  /\ sink = {}
  /\ returned = FALSE

\* NewCPUCollector: the cache is empty.  b is the busy mode of the host.
NewCPUCollector(b) ==
  /\ cpuStats = <<>>
  /\ cpuStatsMutex = 0
  /\ pc = [g \in Goroutines |-> "ready"]
  /\ idx = [g \in Goroutines |-> 1]
  /\ newStats = [g \in Goroutines |-> <<>>]
  /\ ch = [g \in Goroutines |-> <<>>]
  /\ commits = <<>>
  /\ own = [g \in Goroutines |-> 0]
  /\ seen = [g \in Goroutines |-> 0]
  /\ busy = b
  /\ oldStats = <<>>
  /\ resized = FALSE
  /\ resetCPUs = {}
  /\ calls = 0
  /\ monotone = TRUE
  /\ repeated = FALSE

Init ==
  /\ NoScrape(TRUE)
  /\ \E b \in NonIdleFields : NewCPUCollector(b)

\* One Update of the CPU collector, run to completion with no other scrape
\* overlapping: updateCPUStats(stats.CPU), then the emission of the cache.
Update(raw) ==
  /\ cpuStats' = updateCPUStats(cpuStats, raw)
  /\ newStats' = [newStats EXCEPT ![Main] = raw]
  /\ ch' = [ch EXCEPT ![Main] = EmitFrom(cpuStats', 1)]
  /\ oldStats' = cpuStats
  /\ resized' = CPUsChanged(cpuStats, raw)
  /\ resetCPUs' = JumpBackLog(cpuStats, raw)
  /\ monotone' = (monotone /\ (calls = 0 \/ NonDecreasing(newStats[Main], raw)))
  /\ UNCHANGED <<busy, cpuStatsMutex, pc, idx, commits, own, seen, scrapeVars>>

\* A scrape that reads fresh counters from the kernel.
Scrape(raw) ==
  /\ Update(raw)
  /\ calls' = calls + 1
  /\ repeated' = FALSE

\* A scrape that finds the kernel's counters as the previous scrape read them.
Rescrape ==
  /\ calls > 0
  /\ Update(newStats[Main])
  /\ repeated' = TRUE
  /\ UNCHANGED calls

Next ==
  \/ calls < MaxCalls /\ \E raw \in RawReadings(busy) : Scrape(raw)
  \/ Rescrape

Spec == Init /\ [][Next]_vars

----------------------------------------------------------------------------
\* Overlapping scrapes of the CPU collector: Update step by step

\* The values the idle counter takes in the readings of overlapping scrapes.
Probe == {0, 1, MaxIdle}

\* The readings of overlapping scrapes: at least one CPU, and only the idle
\* counters move.
ConcReadings ==
  {r \in RawReadings("User") :
     /\ Len(r) >= 1
     /\ \A k \in 1..Len(r) : r[k].User = 0 /\ r[k].Idle \in Probe}

\* Mutant of MayLockForUpdate: updateCPUStats takes no lock.
MayLockForUpdateAlways(mutex) == TRUE

\* c.cpuStatsMutex.Lock() in updateCPUStats: blocks while the mutex is held.
MayLockForUpdate(mutex) == mutex = 0

\* Mutant of MayLockForRead: Update reads the cache without the lock.
MayLockForReadAlways(mutex) == TRUE

\* c.cpuStatsMutex.Lock() in Update: blocks while the mutex is held.
MayLockForRead(mutex) == mutex = 0

InitConc == NoScrape(TRUE) /\ NewCPUCollector("User")

\* Update obtains its reading and calls c.updateCPUStats(stats.CPU).
Call(g, raw) ==
  /\ pc[g] \in {"ready", "done"}
  /\ calls < MaxScrapes
  /\ calls' = calls + 1
  /\ newStats' = [newStats EXCEPT ![g] = raw]
  /\ ch' = [ch EXCEPT ![g] = <<>>]
  /\ own' = [own EXCEPT ![g] = 0]
  /\ seen' = [seen EXCEPT ![g] = 0]
  /\ pc' = [pc EXCEPT ![g] = "update_lock"]
  /\ UNCHANGED <<cpuStats, cpuStatsMutex, idx, busy, commits, seqHist, scrapeVars>>

\* updateCPUStats: c.cpuStatsMutex.Lock()
UpdateLock(g) ==
  /\ pc[g] = "update_lock"
  /\ MayLockForUpdate(cpuStatsMutex)
  /\ cpuStatsMutex' = g
  /\ pc' = [pc EXCEPT ![g] = "resize"]
  /\ UNCHANGED <<cpuStats, idx, newStats, ch, busy, calls, commits, own, seen, seqHist, scrapeVars>>

\* updateCPUStats: reset the cache if the list of CPUs has changed.
Resize(g) ==
  /\ pc[g] = "resize"
  /\ cpuStats' = Baseline(cpuStats, newStats[g])
  /\ idx' = [idx EXCEPT ![g] = 1]
  /\ pc' = [pc EXCEPT ![g] = "loop"]
  /\ UNCHANGED <<cpuStatsMutex, newStats, ch, busy, calls, commits, own, seen, seqHist, scrapeVars>>

\* updateCPUStats: one iteration of the loop over newStats.  An index past the
\* end of c.cpuStats is a run-time panic.
Loop(g) ==
  /\ pc[g] = "loop"
  /\ idx[g] <= Len(newStats[g])
  /\ IF idx[g] <= Len(cpuStats)
       THEN /\ cpuStats' = [cpuStats EXCEPT
                              ![idx[g]] = ConsolidateCPU(cpuStats[idx[g]], newStats[g][idx[g]])]
            /\ idx' = [idx EXCEPT ![g] = idx[g] + 1]
            /\ UNCHANGED pc
       ELSE /\ pc' = [pc EXCEPT ![g] = "panic"]
            /\ UNCHANGED <<cpuStats, idx>>
  /\ UNCHANGED <<cpuStatsMutex, newStats, ch, busy, calls, commits, own, seen, seqHist, scrapeVars>>

\* A return from updateCPUStats that leaves the mutex with the caller (the
\* deferred Unlock left out).
UpdateUnlockKeepingLock(g) ==
  /\ pc[g] = "loop"
  /\ idx[g] > Len(newStats[g])
  /\ commits' = Append(commits, [by |-> g, raw |-> newStats[g], stats |-> cpuStats])
  /\ own' = [own EXCEPT ![g] = Len(commits) + 1]
  /\ pc' = [pc EXCEPT ![g] = "emit_lock"]
  /\ UNCHANGED <<cpuStats, cpuStatsMutex, idx, newStats, ch, busy, calls, seen, seqHist, scrapeVars>>

\* updateCPUStats returns: the deferred c.cpuStatsMutex.Unlock().
UpdateUnlock(g) ==
  /\ pc[g] = "loop"
  /\ idx[g] > Len(newStats[g])
  /\ cpuStatsMutex' = 0
  /\ commits' = Append(commits, [by |-> g, raw |-> newStats[g], stats |-> cpuStats])
  /\ own' = [own EXCEPT ![g] = Len(commits) + 1]
  /\ pc' = [pc EXCEPT ![g] = "emit_lock"]
  /\ UNCHANGED <<cpuStats, idx, newStats, ch, busy, calls, seen, seqHist, scrapeVars>>

\* Update: acquire a lock to read the stats.
EmitLock(g) ==
  /\ pc[g] = "emit_lock"
  /\ MayLockForRead(cpuStatsMutex)
  /\ cpuStatsMutex' = g
  /\ idx' = [idx EXCEPT ![g] = 1]
  /\ seen' = [seen EXCEPT ![g] = Len(commits)]
  /\ pc' = [pc EXCEPT ![g] = "emit"]
  /\ UNCHANGED <<cpuStats, newStats, ch, busy, calls, commits, own, seqHist, scrapeVars>>

\* Update: one iteration of the loop over c.cpuStats.
Emit(g) ==
  /\ pc[g] = "emit"
  /\ idx[g] <= Len(cpuStats)
  /\ ch' = [ch EXCEPT ![g] = ch[g] \o EmitCPU(idx[g] - 1, cpuStats[idx[g]])]
  /\ idx' = [idx EXCEPT ![g] = idx[g] + 1]
  /\ UNCHANGED <<cpuStats, cpuStatsMutex, pc, newStats, busy, calls, commits, own, seen, seqHist, scrapeVars>>

\* Update returns nil: the deferred c.cpuStatsMutex.Unlock().
EmitUnlock(g) ==
  /\ pc[g] = "emit"
  /\ idx[g] > Len(cpuStats)
  /\ cpuStatsMutex' = 0
  /\ pc' = [pc EXCEPT ![g] = "done"]
  /\ UNCHANGED <<cpuStats, idx, newStats, ch, busy, calls, commits, own, seen, seqHist, scrapeVars>>

NextConc ==
  \E g \in Goroutines :
    \/ \E raw \in ConcReadings : Call(g, raw)
    \/ UpdateLock(g)
    \/ Resize(g)
    \/ Loop(g)
    \/ UpdateUnlock(g)
    \/ EmitLock(g)
    \/ Emit(g)
    \/ EmitUnlock(g)

SpecConc == InitConc /\ [][NextConc]_vars

\* Scheduling of the goroutines inside Update.  A goroutine that can take its
\* next step is eventually run (weak fairness on the steps that do not wait).
\* A goroutine waiting in Lock is not passed over for ever while the mutex
\* keeps being released (strong fairness on the two acquisitions).  Nothing
\* obliges a new scrape to begin, so Call carries no fairness.
Fairness ==
  \A g \in Goroutines :
    /\ SF_vars(UpdateLock(g))
    /\ WF_vars(Resize(g))
    /\ WF_vars(Loop(g))
    /\ WF_vars(UpdateUnlock(g))
    /\ SF_vars(EmitLock(g))
    /\ WF_vars(Emit(g))
    /\ WF_vars(EmitUnlock(g))

\* Raw readings for the runs under fairness: one or two CPUs (so that the
\* cache is resized and the loops differ in length), idle either at zero or
\* far enough ahead that a later zero is a jump back.
FairReadings == {r \in ConcReadings : \A k \in 1..Len(r) : r[k].Idle \in {0, MaxIdle}}

NextConcFair ==
  \E g \in Goroutines :
    \/ \E raw \in FairReadings : Call(g, raw)
    \/ UpdateLock(g)
    \/ Resize(g)
    \/ Loop(g)
    \/ UpdateUnlock(g)
    \/ EmitLock(g)
    \/ Emit(g)
    \/ EmitUnlock(g)

SpecConcFair == InitConc /\ [][NextConcFair]_vars /\ Fairness

----------------------------------------------------------------------------
\* One scrape over all enabled collectors.  The collectors are stateless ones
\* of the shape of buddyinfoCollector.Update and bcacheCollector.Update: read
\* the data source, return the error if there is one, else send every sample
\* and return nil.  The orchestrator that runs them is described in the
\* specification text only (sections 4.4 and 5).

\* Mutant of AfterRead: the error is looked at only after the samples are sent.
AfterReadSendFirst(err) == "sending"

\* if err != nil { return fmt.Errorf(...) } : where Update goes after the read.
AfterRead(err) == IF err THEN "returning" ELSE "sending"

\* The orchestrator may start collector c: at any time in concurrent mode, one
\* at a time in registration order in sequential mode.
MayStart(c) ==
  \/ concurrent
  \/ \A d \in Collectors \ {c} :
       IF d < c THEN cpc[d] = "reported" ELSE cpc[d] = "pending"

\* The scrape begins with the collectors constructed and a mode configured.
InitScrape ==
  /\ \E mode \in BOOLEAN : NoScrape(mode)
  /\ NewCPUCollector("User")

\* The orchestrator starts collector c's Update.
StartCollector(c) ==
  /\ ~returned
  /\ cpc[c] = "pending"
  /\ MayStart(c)
  /\ cpc' = [cpc EXCEPT ![c] = "reading"]
  /\ UNCHANGED <<concurrent, cerr, sent, sink, returned, cpuVars>>

\* Update: buddyInfo, err := c.fs.BuddyInfo(), and the check of err.
CollectorRead(c, err) ==
  /\ cpc[c] = "reading"
  /\ cerr' = [cerr EXCEPT ![c] = err]
  /\ cpc' = [cpc EXCEPT ![c] = AfterRead(err)]
  /\ UNCHANGED <<concurrent, sent, sink, returned, cpuVars>>

\* Update: ch <- MustNewConstMetric(...), one sample.
CollectorSend(c) ==
  /\ cpc[c] = "sending"
  /\ sent[c] < NumSamples
  /\ sent' = [sent EXCEPT ![c] = sent[c] + 1]
  /\ sink' = sink \cup {<<"sample", c, sent[c] + 1>>}
  /\ UNCHANGED <<concurrent, cpc, cerr, returned, cpuVars>>

\* Update: the loop is over.
CollectorSent(c) ==
  /\ cpc[c] = "sending"
  /\ sent[c] = NumSamples
  /\ cpc' = [cpc EXCEPT ![c] = "returning"]
  /\ UNCHANGED <<concurrent, cerr, sent, sink, returned, cpuVars>>

\* Update returns the error or nil; the orchestrator records the outcome as
\* the collector's success meta-sample.
ReportSuccess(c) ==
  /\ cpc[c] = "returning"
  /\ sink' = sink \cup {<<"success", c, ~cerr[c]>>}
  /\ cpc' = [cpc EXCEPT ![c] = "reported"]
  /\ UNCHANGED <<concurrent, cerr, sent, returned, cpuVars>>

\* The orchestrator has waited for every collector and returns.
ScrapeReturn ==
  /\ ~returned
  /\ \A c \in Collectors : cpc[c] = "reported"
  /\ returned' = TRUE
  /\ UNCHANGED <<concurrent, cpc, cerr, sent, sink, cpuVars>>

NextScrape ==
  \/ \E c \in Collectors :
       \/ StartCollector(c)
       \/ \E err \in BOOLEAN : CollectorRead(c, err)
       \/ CollectorSend(c)
       \/ CollectorSent(c)
       \/ ReportSuccess(c)
  \/ ScrapeReturn

SpecScrape == InitScrape /\ [][NextScrape]_vars

----------------------------------------------------------------------------
\* Claims about sequential scrapes (specification Spec)

\* The reading the latest updateCPUStats consolidated.
LastRaw == newStats[Main]

\* The reading had as many CPUs as the cache it was consolidated into.
SameCPUs == Len(LastRaw) = Len(oldStats)

\* The cached idle of CPU k was at least the limit above the raw idle.
IdleJump(k) == oldStats[k].Idle - LastRaw[k].Idle >= jumpBackSeconds

Max(a, b) == IF a >= b THEN a ELSE b

\* C1: after a call of updateCPUStats no field of any CPU is below its value
\* before the call, unless the CPU count of the reading differed from the cache
\* length or the cached idle of that CPU was >= 3 seconds above the raw idle.
C1_NoDecrease ==
  (calls > 0 /\ SameCPUs) =>
    /\ Len(cpuStats) = Len(oldStats)
    /\ \A k \in 1..Len(oldStats) :
         ~IdleJump(k) => \A f \in Fields : cpuStats[k][f] >= oldStats[k][f]

\* A call in which a raw field was below the cache and no reset condition held.
C1_Witness ==
  /\ calls > 1
  /\ SameCPUs
  /\ \E k \in 1..Len(oldStats) :
       /\ ~IdleJump(k)
       /\ LastRaw[k].Idle < oldStats[k].Idle
       /\ LastRaw[k][busy] < oldStats[k][busy]

\* C2: from the empty cache, while the readings keep their CPU count and no
\* field decreases, the cache after each call equals the reading, no CPU is
\* reset and no cached value is discarded (the cache is allocated once, from
\* empty).
C2_RatchetNoOp ==
  (calls > 0 /\ monotone) =>
    /\ cpuStats = LastRaw
    /\ resetCPUs = {}
    /\ resized => oldStats = <<>>

\* A second well-behaved reading in which some counter advanced.
C2_Witness ==
  /\ calls > 1
  /\ monotone
  /\ ~repeated
  /\ Len(LastRaw) = MaxCPUs
  /\ \E k \in 1..Len(LastRaw) : LastRaw[k].Idle > oldStats[k].Idle
  /\ \E k \in 1..Len(LastRaw) : LastRaw[k][busy] = oldStats[k][busy] /\ oldStats[k][busy] > 0

\* C3 as stated: with an unchanged CPU count and cached idle - raw idle >= 3
\* for CPU k, every field of CPU k is zero after the call, and every other CPU
\* is as it would be without the jump.
C3_ResetExposesZero ==
  (calls > 0 /\ SameCPUs) =>
    \A k \in 1..Len(oldStats) :
      IdleJump(k) =>
        /\ cpuStats[k] = ZeroStat
        /\ \A j \in 1..Len(oldStats) \ {k} : \A f \in Fields :
             cpuStats[j][f] =
               IF IdleJump(j) THEN 0 ELSE Max(oldStats[j][f], LastRaw[j][f])

\* C3 amended: with an unchanged CPU count and cached idle - raw idle >= 3
\* for CPU k, the slot of CPU k restarts from zero and takes the reading, so
\* every field of CPU k equals its raw value after the call; every other CPU
\* j is as it would be without the jump of CPU k.
C3_ResetAdoptsRaw ==
  (calls > 0 /\ SameCPUs) =>
    \A k \in 1..Len(oldStats) :
      IdleJump(k) =>
        /\ cpuStats[k] = LastRaw[k]
        /\ \A j \in 1..Len(oldStats) \ {k} : \A f \in Fields :
             cpuStats[j][f] =
               IF IdleJump(j) THEN LastRaw[j][f]
               ELSE Max(oldStats[j][f], LastRaw[j][f])

\* CPU 0 jumped back past the limit with non-zero raw counters below the
\* cache, while CPU 1 kept history the reading does not have.
C3_Witness ==
  /\ calls > 1
  /\ Len(oldStats) = 2 /\ Len(LastRaw) = 2
  /\ IdleJump(1) /\ ~IdleJump(2)
  /\ LastRaw[1].Idle > 0
  /\ LastRaw[1][busy] > 0 /\ LastRaw[1][busy] < oldStats[1][busy]
  /\ LastRaw[2][busy] < oldStats[2][busy]
  /\ 1 \in resetCPUs

\* C4: with an unchanged CPU count and no idle jump-back reset of CPU k, each
\* field of CPU k keeps its cached value if the raw value is lower and takes the
\* raw value otherwise, whatever the other fields and the other CPUs do.
C4_FieldwiseRatchet ==
  (calls > 0 /\ SameCPUs) =>
    \A k \in 1..Len(oldStats) :
      ~IdleJump(k) =>
        \A f \in Fields :
          cpuStats[k][f] =
            IF LastRaw[k][f] < oldStats[k][f] THEN oldStats[k][f] ELSE LastRaw[k][f]

\* One field of CPU 0 regressed while its other field and CPU 1 advanced.
C4_Witness ==
  /\ calls > 1
  /\ Len(oldStats) = 2 /\ Len(LastRaw) = 2
  /\ ~IdleJump(1) /\ ~IdleJump(2)
  /\ LastRaw[1][busy] < oldStats[1][busy]
  /\ LastRaw[1].Idle > oldStats[1].Idle
  /\ LastRaw[2][busy] > oldStats[2][busy]
  /\ LastRaw[2].Idle < oldStats[2].Idle
  /\ cpuStats[1][busy] = oldStats[1][busy]

C10_Idempotent ==
  repeated =>
    /\ cpuStats = oldStats
    /\ ~resized
    /\ resetCPUs = {}

\* The same reading consolidated again into a cache that holds a counter above
\* the reading (a regression the call before absorbed).
C10_Witness ==
  /\ repeated
  /\ calls > 1
  /\ \E k \in 1..Len(LastRaw) :
       /\ cpuStats[k].Idle = LastRaw[k].Idle
       /\ LastRaw[k].Idle > 0
       /\ cpuStats[k][busy] > LastRaw[k][busy]

----------------------------------------------------------------------------
\* Claims about overlapping scrapes (specification SpecConc)

\* The cache as the j-th returned updateCPUStats call left it.
Committed(j) == IF j = 0 THEN <<>> ELSE commits[j].stats

\* Goroutine g holds the lock for its updateCPUStats or its emission pass.
InCriticalSection(g) == pc[g] \in {"resize", "loop", "emit"}

\* C6 as stated: the samples a finished Update has sent are the cache values
\* its own updateCPUStats call produced, also when scrapes overlap.
C6_EmitsOwnConsolidation ==
  \A g \in Goroutines :
    pc[g] = "done" => ch[g] = EmitFrom(Committed(own[g]), 1)

\* C6 amended: the samples a finished Update has sent are the cache as the
\* latest updateCPUStats call to return before its emission pass took the lock
\* left it: its own call, or the call of an overlapping scrape that ran in
\* between; they are the values of its own call whenever no other call
\* returned in between.
C6_EmitsLatestConsolidation ==
  \A g \in Goroutines :
    pc[g] = "done" =>
      /\ own[g] >= 1
      /\ seen[g] >= own[g]
      /\ commits[own[g]].by = g /\ commits[own[g]].raw = newStats[g]
      /\ ch[g] = EmitFrom(Committed(seen[g]), 1)
      /\ seen[g] = own[g] => ch[g] = EmitFrom(Committed(own[g]), 1)

\* A finished Update whose emission came after another scrape's call had
\* reallocated the cache its own call left.
C6_Witness ==
  \E g \in Goroutines :
    /\ pc[g] = "done"
    /\ seen[g] > own[g]
    /\ Len(Committed(seen[g])) # Len(Committed(own[g]))
    /\ ch[g] # <<>>

\* C7: at most one goroutine at a time is inside updateCPUStats or an
\* emission pass, and it is the holder of the mutex; every returned
\* updateCPUStats call left the cache that the whole call computes from the
\* cache the call before it left, so the cache is the result of the calls run
\* one after another in the order of their return; outside a call the cache
\* is the last call's result; every emission pass reads one such result.
C7_Serialized ==
  /\ \A g, h \in Goroutines :
       (InCriticalSection(g) /\ InCriticalSection(h)) => g = h
  /\ \A g \in Goroutines : InCriticalSection(g) => cpuStatsMutex = g
  /\ \A g \in Goroutines : pc[g] # "panic"
  /\ \A j \in 1..Len(commits) :
       commits[j].stats = updateCPUStats(Committed(j - 1), commits[j].raw)
  /\ (\A g \in Goroutines : pc[g] \notin {"resize", "loop"}) =>
       cpuStats = Committed(Len(commits))
  /\ \A g \in Goroutines :
       pc[g] = "emit" => ch[g] = EmitFrom(SubSeq(cpuStats, 1, idx[g] - 1), 1)
  /\ \A g \in Goroutines :
       pc[g] = "done" =>
         \E j \in 1..Len(commits) : ch[g] = EmitFrom(Committed(j), 1)

\* Two Updates overlapped (goroutine 2's call returned first, goroutine 1's
\* second, then goroutine 2 emitted), with readings whose order of
\* consolidation decides the cache, while goroutine 1 was kept waiting for the
\* lock by goroutine 2's emission pass.
C7_Witness ==
  /\ Len(commits) = 2
  /\ commits[1].by = 2 /\ commits[2].by = 1
  /\ pc[2] = "emit" /\ idx[2] = 2
  /\ pc[1] = "emit_lock"
  /\ updateCPUStats(updateCPUStats(<<>>, commits[2].raw), commits[1].raw) # cpuStats

----------------------------------------------------------------------------
\* Claims about one scrape over all collectors (specification SpecScrape)

\* Collector f is the only one whose Update returned an error.
OnlyFailure(f) == cerr[f] /\ \A c \in Collectors \ {f} : ~cerr[c]

\* C8: in either execution mode the scrape is never stuck before it returns,
\* and when it has returned with exactly one collector f failed, its output is
\* success=false for f, success=true for every other collector, every sample
\* of the other collectors, and nothing else (no sample of f).
C8_FailureIsolated ==
  /\ ~returned => ENABLED NextScrape
  /\ returned =>
       \A f \in Collectors :
         OnlyFailure(f) =>
           sink = {<<"success", f, FALSE>>}
                    \cup {<<"success", c, TRUE>> : c \in Collectors \ {f}}
                    \cup {<<"sample", c, k>> :
                            c \in Collectors \ {f}, k \in 1..NumSamples}

\* A returned sequential scrape whose first collector failed.
C8_Witness ==
  /\ returned
  /\ ~concurrent
  /\ OnlyFailure(1)
  /\ <<"success", 1, FALSE>> \in sink
  /\ <<"sample", NumCollectors, NumSamples>> \in sink

----------------------------------------------------------------------------
\* Claims about termination of overlapping Updates (specification SpecConcFair)

\* Goroutine g is about to call Lock on the cache mutex.
AtLock(g) == pc[g] \in {"update_lock", "emit_lock"}

\* Goroutine g has returned from Update with one group of samples sent for
\* every CPU of the cache and without the mutex.
Returned(g) ==
  /\ pc[g] = "done"
  /\ cpuStatsMutex # g
  /\ own[g] > 0
  /\ seen[g] >= own[g]
  /\ ch[g] = EmitFrom(Committed(seen[g]), 1)

\* C11: Update never calls Lock while it already holds the mutex, and under
\* fair scheduling every Update that has obtained its raw reading eventually
\* returns, having taken the mutex for consolidation and again for emission,
\* sent its samples and released the mutex.
C11_UpdateReturns ==
  /\ [](\A g \in Goroutines : AtLock(g) => cpuStatsMutex # g)
  /\ \A g \in Goroutines : (pc[g] = "update_lock") ~> Returned(g)

\* Goroutine 1 has returned from an Update in which it had to wait: the
\* consolidation of goroutine 2 came between its own consolidation and its
\* emission, and goroutine 2 now holds the mutex again.
C11_Witness ==
  /\ Returned(1)
  /\ seen[1] > own[1]
  /\ cpuStatsMutex = 2

====
